---- MODULE Spec2Model ----
(***************************************************************************)
(* Img2TxtClient (src/src/index.ts): a client that uploads a local image   *)
(* through a pre-signed URL and asks the service to extract its text.      *)
(*                                                                         *)
(* The state is the client instance, and for every process() call its      *)
(* arguments, its position in the await chain, the I/O events it caused    *)
(* (requests, responses, the timer), the responses it received and its     *)
(* outcome.  Each action is one run-to-completion step of the JavaScript   *)
(* event loop: the synchronous code between two awaits.                    *)
(*                                                                         *)
(* Text that the code builds by concatenation (error messages, URLs,       *)
(* JSON) is a sequence of string tokens, so that "the message carries the  *)
(* status" is a statement about its tokens.                                *)
(***************************************************************************)
EXTENDS Integers, Sequences, FiniteSets, TLC

(***************************************************************************)
(* Bounds of the model                                                     *)
(***************************************************************************)
\* longest outputStructure text that is enumerated exhaustively
MaxLen == 3
\* process() calls that run concurrently on one client in SpecConc
NumCalls == 2
\* granularity of the clock, in ms
TickMs == 100

(***************************************************************************)
(* Program constants                                                       *)
(***************************************************************************)
\* setTimeout(resolve, 200)
DelayMs == 200
BaseUrl == "https://img2txt.io/api/"

(***************************************************************************)
(* JavaScript values: [t |-> typeof-like tag, v |-> the value]             *)
(***************************************************************************)
Undefined == [t |-> "undefined", v |-> ""]
Null      == [t |-> "null", v |-> ""]
Str(s)    == [t |-> "string", v |-> s]
Num(n)    == [t |-> "number", v |-> n]
Bool(b)   == [t |-> "boolean", v |-> b]
Obj       == [t |-> "object", v |-> "{}"]
\* an outputStructure argument: a string given as its sequence of characters
Text(s)   == [t |-> "string", v |-> s]

\* ToBoolean, as used by !x, if (x) and x || y
Truthy(x) ==
    CASE x.t = "string"  -> x.v # ""
      [] x.t = "number"  -> x.v # "0"
      [] x.t = "boolean" -> x.v = "true"
      [] x.t = "object"  -> TRUE
      [] OTHER           -> FALSE

\* the same for an outputStructure argument
TruthyText(x) == x.t = "string" /\ Len(x.v) > 0

\* a default parameter value applies when the argument is undefined
Default(x, d) == IF x.t = "undefined" THEN d ELSE x

(***************************************************************************)
(* JSON.parse and JSON.stringify on character sequences.  The grammar is   *)
(* JSON restricted to arrays, objects, unsigned integers and string        *)
(* literals (a string literal is one token), with JSON's whitespace.       *)
(***************************************************************************)
Whitespace == {" ", "\n", "\t", "\r"}
Digits     == {"0", "1", "2", "3", "4", "5", "6", "7", "8", "9"}
StringLits == {"\"\"", "\"k\"", "\"destinations\"", "\"time\""}

RECURSIVE SkipWs(_, _)
SkipWs(s, i) ==
    IF i <= Len(s) /\ s[i] \in Whitespace THEN SkipWs(s, i + 1) ELSE i

RECURSIVE DigitsEnd(_, _)
\* the position after the run of digits that starts at i
DigitsEnd(s, i) ==
    IF i <= Len(s) /\ s[i] \in Digits THEN DigitsEnd(s, i + 1) ELSE i

ParseFail == [ok |-> FALSE, val |-> [t |-> "num", v |-> <<"0">>], next |-> 0]
ParseOk(val, next) == [ok |-> TRUE, val |-> val, next |-> next]

\* obj[key] = val on the members parsed so far: a repeated key keeps its
\* first position and takes the last value
SetMember(members, key, val) ==
    IF \E k \in 1..Len(members) : members[k][1] = key
    THEN [k \in 1..Len(members) |->
             IF members[k][1] = key THEN <<key, val>> ELSE members[k]]
    ELSE Append(members, <<key, val>>)

RECURSIVE ParseValue(_, _), ParseElements(_, _, _), ParseMembers(_, _, _)
\* the value that starts at position i (whitespace already skipped)
ParseValue(s, i) ==
    IF i > Len(s) THEN ParseFail
    ELSE IF s[i] \in Digits THEN
        LET e == DigitsEnd(s, i) IN
        IF s[i] = "0" /\ e > i + 1 THEN ParseFail
        ELSE ParseOk([t |-> "num", v |-> SubSeq(s, i, e - 1)], e)
    ELSE IF s[i] \in StringLits THEN
        ParseOk([t |-> "str", v |-> <<s[i]>>], i + 1)
    ELSE IF s[i] = "[" THEN
        LET j == SkipWs(s, i + 1) IN
        IF j <= Len(s) /\ s[j] = "]"
        THEN ParseOk([t |-> "arr", v |-> <<>>], j + 1)
        ELSE ParseElements(s, j, <<>>)
    ELSE IF s[i] = "{" THEN
        LET j == SkipWs(s, i + 1) IN
        IF j <= Len(s) /\ s[j] = "}"
        THEN ParseOk([t |-> "obj", v |-> <<>>], j + 1)
        ELSE ParseMembers(s, j, <<>>)
    ELSE ParseFail

\* the elements of an array from position i on, up to its "]"
ParseElements(s, i, acc) ==
    LET r == ParseValue(s, i) IN
    IF ~r.ok THEN ParseFail
    ELSE LET k == SkipWs(s, r.next) IN
         IF k > Len(s) THEN ParseFail
         ELSE IF s[k] = "," THEN
             ParseElements(s, SkipWs(s, k + 1), Append(acc, r.val))
         ELSE IF s[k] = "]" THEN
             ParseOk([t |-> "arr", v |-> Append(acc, r.val)], k + 1)
         ELSE ParseFail

\* the members of an object from position i on, up to its "}"
ParseMembers(s, i, acc) ==
    IF i > Len(s) \/ s[i] \notin StringLits THEN ParseFail
    ELSE LET c == SkipWs(s, i + 1) IN
         IF c > Len(s) \/ s[c] # ":" THEN ParseFail
         ELSE LET r == ParseValue(s, SkipWs(s, c + 1)) IN
              IF ~r.ok THEN ParseFail
              ELSE LET k == SkipWs(s, r.next)
                       members == SetMember(acc, s[i], r.val) IN
                   IF k > Len(s) THEN ParseFail
                   ELSE IF s[k] = "," THEN
                       ParseMembers(s, SkipWs(s, k + 1), members)
                   ELSE IF s[k] = "}" THEN
                       ParseOk([t |-> "obj", v |-> members], k + 1)
                   ELSE ParseFail

\* JSON.parse(s): ok = FALSE when it throws a SyntaxError
JsonParse(s) ==
    LET r == ParseValue(s, SkipWs(s, 1)) IN
    IF r.ok /\ SkipWs(s, r.next) = Len(s) + 1 THEN r ELSE ParseFail

RECURSIVE JsonStringify(_), StringifyItems(_, _), StringifyMembers(_, _)
\* JSON.stringify(val) without an indent argument: no whitespace
JsonStringify(val) ==
    CASE val.t = "num" -> val.v
      [] val.t = "str" -> val.v
      [] val.t = "arr" -> <<"[">> \o StringifyItems(val.v, 1) \o <<"]">>
      [] val.t = "obj" -> <<"{">> \o StringifyMembers(val.v, 1) \o <<"}">>

StringifyItems(items, k) ==
    IF k > Len(items) THEN <<>>
    ELSE JsonStringify(items[k])
         \o (IF k < Len(items) THEN <<",">> ELSE <<>>)
         \o StringifyItems(items, k + 1)

StringifyMembers(members, k) ==
    IF k > Len(members) THEN <<>>
    ELSE <<members[k][1], ":">> \o JsonStringify(members[k][2])
         \o (IF k < Len(members) THEN <<",">> ELSE <<>>)
         \o StringifyMembers(members, k + 1)

\* JSON.stringify of a scalar response value
ScalarStringify(x) ==
    CASE x.t = "string"    -> <<"\"" \o x.v \o "\"">>
      [] x.t = "null"      -> <<"null">>
      [] x.t = "undefined" -> <<"undefined">>
      [] OTHER             -> <<x.v>>

\* JSON.stringify of an extraction response body {success, text, data}:
\* a property whose value is undefined is left out
BodyStringify(d) ==
    LET field(name, x) ==
            IF x.t = "undefined" THEN <<>>
            ELSE <<<<"\"" \o name \o "\":">> \o ScalarStringify(x)>>
        fields == field("success", d.success) \o field("text", d.text)
                  \o field("data", d.data)
        join[k \in 0..Len(fields)] ==
            IF k = 0 THEN <<>>
            ELSE join[k - 1] \o (IF k > 1 THEN <<",">> ELSE <<>>) \o fields[k]
    IN <<"{">> \o join[Len(fields)] \o <<"}">>

(***************************************************************************)
(* The file system the calls read: a path is its sequence of segments, a   *)
(* segment its sequence of characters                                      *)
(***************************************************************************)
ImagePath   == <<<<"img">>, <<"plane", " ", "2.png">>>>
OtherPath   == <<<<"img">>, <<"b.png">>>>
DirPath     == <<<<"img">>>>
MissingPath == <<<<"img">>, <<"nope.png">>>>

\* "file", "dir" or "missing"
FileKind(path) ==
    CASE path \in {ImagePath, OtherPath} -> "file"
      [] path = DirPath                  -> "dir"
      [] OTHER                           -> "missing"

\* fs.statSync(path).size
FileSize(path) == IF path = ImagePath THEN 2048 ELSE 512

\* the path as text
RECURSIVE PathText(_)
PathText(path) ==
    IF path = <<>> THEN <<>>
    ELSE <<"/">> \o Head(path) \o PathText(Tail(path))

\* path.basename
Basename(path) == path[Len(path)]

\* encodeURIComponent on the characters the file names use
EncodeURIComponent(name) ==
    [k \in 1..Len(name) |-> IF name[k] = " " THEN "%20" ELSE name[k]]

IsRegularFile_ExistsOnly(path) == FileKind(path) # "missing"

\* fs.existsSync(p) && fs.statSync(p).isFile()
IsRegularFile(path) == FileKind(path) = "file"

(***************************************************************************)
(* HTTP: what axios hands to the code for a request                        *)
(***************************************************************************)
NoResp == [kind |-> "none", status |-> 0, data |-> Undefined, code |-> ""]
\* a 2xx response: the promise resolves
HttpOk(data) == [kind |-> "ok", status |-> 200, data |-> data, code |-> ""]
\* a non-2xx response: the promise rejects with an AxiosError that has .response
HttpStatus(status, body) ==
    [kind |-> "status", status |-> status, data |-> body,
     code |-> "ERR_BAD_RESPONSE"]
\* no response: the promise rejects with an AxiosError without .response
HttpTransport(code) ==
    [kind |-> "transport", status |-> 0, data |-> Undefined, code |-> code]

\* error.message of the AxiosError
AxiosMessage(r) ==
    IF r.kind = "status"
    THEN <<"Request failed with status code ", ToString(r.status)>>
    ELSE <<r.code>>

\* how a promise settled: resolved with val, or rejected with message err
Resolved(val) == [ok |-> TRUE, val |-> val, err |-> <<>>]
Rejected(err) == [ok |-> FALSE, val |-> Undefined, err |-> err]

\* new Error(`${prefix}${error.message || error}`)
Wrap(prefix, err) == <<prefix>> \o err

\* an I/O event of a call
Event(ev, url, auth, body) ==
    [ev |-> ev, url |-> url, auth |-> auth, body |-> body]

(***************************************************************************)
(* Img2TxtClient: the code of each method as operators                     *)
(***************************************************************************)
ValidApiKey_TruthyOnly(apiKey) == Truthy(apiKey)

\* the constructor's check: !apiKey || typeof apiKey !== 'string' throws
ValidApiKey(apiKey) == Truthy(apiKey) /\ apiKey.t = "string"

\* the Authorization header the constructor stores
AuthHeader(apiKey) == "Bearer " \o apiKey.v

\* the client a constructor call leaves behind
Constructed(apiKey) ==
    IF ValidApiKey(apiKey)
    THEN [state |-> "ok", auth |-> AuthHeader(apiKey), error |-> <<>>]
    ELSE [state |-> "failed", auth |-> "",
          error |-> <<"API Key is required and must be a string.">>]

\* getUploadUrl: the URL of the GET
UploadUrlRequest(path) ==
    <<BaseUrl, "get-upload-url?name=">>
    \o EncodeURIComponent(Basename(path))
    \o <<"&size=", ToString(FileSize(path))>>

ValidUploadInfo_UrlOnly(data) == Truthy(data.url)

\* getUploadUrl: !data.url || !data.key throws
ValidUploadInfo(data) == Truthy(data.url) /\ Truthy(data.key)

\* getUploadUrl after its await: the settlement of its promise
GetUploadUrlSettle(r) ==
    IF r.kind = "ok"
    THEN IF ValidUploadInfo(r.data)
         THEN Resolved(r.data)
         ELSE Rejected(Wrap("Failed to get upload URL: ",
                  <<"Invalid upload-url response: Missing URL or Key. Status: ",
                    ToString(r.status)>>))
    ELSE Rejected(Wrap("Failed to get upload URL: ", AxiosMessage(r)))

\* uploadFile: the multipart body of the PUT
UploadForm(path) == [file |-> path, filename |-> Basename(path)]

\* uploadFile after its await: the settlement of its promise
UploadFileSettle(r) ==
    IF r.kind = "ok"
    THEN IF Truthy(r.data.ufsUrl)
         THEN Resolved(r.data.ufsUrl)
         ELSE Rejected(Wrap("Failed to upload file: ",
                  <<"Invalid upload response: Missing UFS URL. Status: ",
                    ToString(r.status)>>))
    ELSE Rejected(Wrap("Failed to upload file: ", AxiosMessage(r)))

ValidStructure_Unchecked(outputStructure) == TRUE

\* imageToText: whether JSON.parse(outputStructure) returns
ValidStructure(outputStructure) == JsonParse(outputStructure.v).ok

Normalised_Raw(outputStructure) == outputStructure.v

\* imageToText: JSON.stringify(JSON.parse(outputStructure))
Normalised(outputStructure) == JsonStringify(JsonParse(outputStructure.v).val)

\* imageToText: the keys of the payload
PayloadKeys(description, outputStructure) ==
    {"imageUrl", "outputType"}
    \cup (IF Truthy(description) THEN {"description"} ELSE {})
    \cup (IF TruthyText(outputStructure) THEN {"outputStructure"} ELSE {})

\* imageToText: the payload, its parameters' defaults applied
Payload(imageUrl, outputType, description, outputStructure) ==
    LET type == Default(outputType, Str("raw"))
        desc == Default(description, Str(""))
        struct == Default(outputStructure, Text(<<>>))
    IN [k \in PayloadKeys(desc, struct) |->
           CASE k = "imageUrl"        -> imageUrl.v
             [] k = "outputType"      -> type.v
             [] k = "description"     -> desc.v
             [] k = "outputStructure" -> Normalised(struct)]

\* imageToText up to its await: rejected by the JSON check, or the payload
ImageToTextStart(imageUrl, outputType, description, outputStructure) ==
    LET struct == Default(outputStructure, Text(<<>>)) IN
    IF TruthyText(struct) /\ ~ValidStructure(struct)
    THEN Rejected(Wrap("outputStructure must be valid JSON: ", <<"SyntaxError">>))
    ELSE Resolved(Payload(imageUrl, outputType, description, outputStructure))

\* imageToText: data.data || data.text || data, stringified
Diagnostic(data) ==
    IF Truthy(data.data) THEN ScalarStringify(data.data)
    ELSE IF Truthy(data.text) THEN ScalarStringify(data.text)
    ELSE BodyStringify(data)

ExplicitFailure_Falsy(data) == ~Truthy(data.success)

\* imageToText: data.success === false
ExplicitFailure(data) == data.success = Bool("false")

ImageToTextCatch_MessageOnly(r) ==
    Wrap("Failed to process image: ", AxiosMessage(r))

\* imageToText: its catch clause, on the AxiosError of response r
ImageToTextCatch(r) ==
    IF r.kind = "status"
    THEN <<"API call failed: ", ToString(r.status), " - ">>
         \o ScalarStringify(r.data)
    ELSE Wrap("Failed to process image: ", AxiosMessage(r))

\* imageToText after its await: the settlement of its promise
ImageToTextSettle(r) ==
    IF r.kind = "ok"
    THEN IF ExplicitFailure(r.data)
         THEN Rejected(Wrap("Failed to process image: ",
                  Wrap("Processing failed: ", Diagnostic(r.data))))
         ELSE Resolved(r.data)
    ELSE Rejected(ImageToTextCatch(r))

\* process: `await inner` inside its try block
ProcessAwait(inner) ==
    IF inner.ok THEN inner
    ELSE Rejected(Wrap("Image processing failed: ", inner.err))

\* process: `return inner` inside its try block, with no await: the promise
\* of process follows inner, and the catch clause never sees its rejection
ProcessReturn(inner) == inner


(***************************************************************************)
(* State                                                                   *)
(***************************************************************************)
VARIABLES
    apiKey,   \* the argument of the constructor call, Undefined before it
    client,   \* the instance: [state, auth, error]
    pc,       \* per call: where it stands
    args,     \* per call: the arguments of process
    trace,    \* per call: its I/O events, in order
    resp,     \* per call: the responses to its GET, PUT and POST
    timer,    \* per call: the ms left on its timer
    elapsed,  \* per call: the ms that passed since it set its timer
    outcome   \* per call: how the promise of process settled

vars == <<apiKey, client, pc, args, trace, resp, timer, elapsed, outcome>>

NoArgs == [imagePath |-> <<>>, outputType |-> Undefined,
           description |-> Undefined, outputStructure |-> Undefined]
Pending == [ok |-> FALSE, val |-> Undefined, err |-> <<>>]

Calls == DOMAIN pc

InitCalls(ids) ==
    /\ apiKey = Undefined
    /\ client = [state |-> "none", auth |-> "", error |-> <<>>]
    /\ pc = [c \in ids |-> "idle"]
    /\ args = [c \in ids |-> NoArgs]
    /\ trace = [c \in ids |-> <<>>]
    /\ resp = [c \in ids |-> [get |-> NoResp, put |-> NoResp, post |-> NoResp]]
    /\ timer = [c \in ids |-> 0]
    /\ elapsed = [c \in ids |-> 0]
    /\ outcome = [c \in ids |-> Pending]

(***************************************************************************)
(* Actions                                                                 *)
(***************************************************************************)
\* new Img2TxtClient(key)
Construct(keys) ==
    /\ client.state = "none"
    /\ \E key \in keys :
       /\ apiKey' = key
       /\ client' = Constructed(key)
    /\ UNCHANGED <<pc, args, trace, resp, timer, elapsed, outcome>>

\* a call settles: the caller gets s
Settle(c, s) ==
    /\ pc' = [pc EXCEPT ![c] = IF s.ok THEN "resolved" ELSE "rejected"]
    /\ outcome' = [outcome EXCEPT ![c] = s]

\* client.process(a...): the file check, then getUploadUrl up to its await
Process(c, inputs) ==
    /\ client.state = "ok"
    /\ pc[c] = "idle"
    /\ \E a \in inputs :
       /\ args' = [args EXCEPT ![c] = a]
       /\ IF ~IsRegularFile(a.imagePath)
          THEN /\ Settle(c, Rejected(Wrap("File not found or is not a file: ",
                                          PathText(a.imagePath))))
               /\ UNCHANGED trace
          ELSE /\ trace' = [trace EXCEPT ![c] = <<Event("GET",
                               UploadUrlRequest(a.imagePath), client.auth, <<>>)>>]
               /\ pc' = [pc EXCEPT ![c] = "awaitGet"]
               /\ UNCHANGED outcome
    /\ UNCHANGED <<apiKey, client, resp, timer, elapsed>>

\* the GET is answered: the rest of getUploadUrl, then uploadFile up to its await
GetUploadUrlResume(c, answers) ==
    /\ pc[c] = "awaitGet"
    /\ \E r \in answers :
       /\ resp' = [resp EXCEPT ![c].get = r]
       /\ LET info == ProcessAwait(GetUploadUrlSettle(r))
              answered == Append(trace[c], Event("GET.resp", <<>>, "", <<>>))
          IN IF info.ok
             THEN /\ trace' = [trace EXCEPT ![c] = Append(answered,
                         Event("PUT", <<info.val.url.v>>, client.auth,
                               UploadForm(args[c].imagePath)))]
                  /\ pc' = [pc EXCEPT ![c] = "awaitPut"]
                  /\ UNCHANGED outcome
             ELSE /\ trace' = [trace EXCEPT ![c] = answered]
                  /\ Settle(c, info)
    /\ UNCHANGED <<apiKey, client, args, timer, elapsed>>

\* the PUT is answered: the rest of uploadFile, then the timer is set
UploadFileResume(c, answers) ==
    /\ pc[c] = "awaitPut"
    /\ \E r \in answers :
       /\ resp' = [resp EXCEPT ![c].put = r]
       /\ LET ufsUrl == ProcessAwait(UploadFileSettle(r))
              answered == Append(trace[c], Event("PUT.resp", <<>>, "", <<>>))
          IN IF ufsUrl.ok
             THEN /\ trace' = [trace EXCEPT ![c] = Append(answered,
                         Event("setTimeout", <<>>, "", <<>>))]
                  /\ timer' = [timer EXCEPT ![c] = DelayMs]
                  /\ pc' = [pc EXCEPT ![c] = "delay"]
                  /\ UNCHANGED outcome
             ELSE /\ trace' = [trace EXCEPT ![c] = answered]
                  /\ Settle(c, ufsUrl)
                  /\ UNCHANGED timer
    /\ UNCHANGED <<apiKey, client, args, elapsed>>

\* a ufsUrl kept in a field of the client, which the last upload overwrites
UfsUrlOf_Shared(c) ==
    LET others == {d \in Calls : d # c /\ pc[d] # "idle"
                                 /\ UploadFileSettle(resp[d].put).ok}
    IN IF others = {}
       THEN UploadFileSettle(resp[c].put).val
       ELSE UploadFileSettle(resp[CHOOSE d \in others : TRUE].put).val

\* process: its local ufsUrl, the value uploadFile resolved with
UfsUrlOf(c) == UploadFileSettle(resp[c].put).val

TimerExpired_AtOnce(c) == TRUE

\* setTimeout(resolve, 200): resolve runs once the delay has passed
TimerExpired(c) == timer[c] = 0

\* time passes while a timer is running
Tick ==
    /\ \E c \in Calls : pc[c] = "delay" /\ timer[c] > 0
    /\ timer' = [c \in Calls |->
                    IF timer[c] > TickMs THEN timer[c] - TickMs ELSE 0]
    /\ elapsed' = [c \in Calls |->
                    IF pc[c] = "delay" THEN elapsed[c] + TickMs ELSE elapsed[c]]
    /\ UNCHANGED <<apiKey, client, pc, args, trace, resp, outcome>>

\* the timer fires: imageToText up to its await
TimerFire(c) ==
    /\ pc[c] = "delay"
    /\ TimerExpired(c)
    /\ LET started == ProcessReturn(ImageToTextStart(
                          UfsUrlOf(c), args[c].outputType,
                          args[c].description, args[c].outputStructure))
           fired == Append(trace[c], Event("timeout", <<>>, "", <<>>))
       IN IF started.ok
          THEN /\ trace' = [trace EXCEPT ![c] = Append(fired,
                      Event("POST", <<BaseUrl, "image-to-text">>, client.auth,
                            started.val))]
               /\ pc' = [pc EXCEPT ![c] = "awaitPost"]
               /\ UNCHANGED outcome
          ELSE /\ trace' = [trace EXCEPT ![c] = fired]
               /\ Settle(c, started)
    /\ UNCHANGED <<apiKey, client, args, resp, timer, elapsed>>

\* the POST is answered: the rest of imageToText
ImageToTextResume(c, answers) ==
    /\ pc[c] = "awaitPost"
    /\ \E r \in answers :
       /\ resp' = [resp EXCEPT ![c].post = r]
       /\ Settle(c, ProcessReturn(ImageToTextSettle(r)))
    /\ trace' = [trace EXCEPT ![c] =
                    Append(@, Event("POST.resp", <<>>, "", <<>>))]
    /\ UNCHANGED <<apiKey, client, args, timer, elapsed>>

(***************************************************************************)
(* Inputs                                                                  *)
(***************************************************************************)
ApiKeys == {Undefined, Null, Str(""), Str("sk-1"), Num("0"), Num("42"), Obj}

\* every text over Alphabet of at most MaxLen characters
Alphabet == {"[", "]", ",", " ", "1"}
BoundedTexts == UNION {[1..n -> Alphabet] : n \in 0..MaxLen}

\* the template of the repository's tests, and a text with a repeated key
SampleTexts ==
    { <<"{", "\n", " ", "\"destinations\"", ":", " ", "[", "\n", " ", "\"\"",
        "\n", " ", "]", "\n", "}", "\n", " ">>,
      <<"{", "\"k\"", ":", "1", ",", "\"time\"", ":", "[", "]", ",",
        "\"k\"", ":", "0", "}">>,
      <<"{", "\"k\"", " ", "1", "}">> }

Paths        == {ImagePath, DirPath, MissingPath}
OutputTypes  == {Undefined, Str("structured")}
Descriptions == {Undefined, Str(""), Str("the arrival time")}
Structures   == {Undefined} \cup {Text(s) : s \in BoundedTexts \cup SampleTexts}

ProcessArgs ==
    [imagePath : Paths, outputType : OutputTypes,
     description : Descriptions, outputStructure : Structures]

UploadUrls == {Undefined, Str(""), Str("https://s3/put/1")}
UploadKeys == {Undefined, Str("key-1")}
UfsUrls    == {Undefined, Str(""), Str("https://ufs/f/1")}

GetResponses ==
    {HttpOk([url |-> u, key |-> k]) : u \in UploadUrls, k \in UploadKeys}
    \cup {HttpStatus(403, Str("Forbidden")), HttpStatus(500, Str("")),
          HttpTransport("ECONNRESET")}

PutResponses ==
    {HttpOk([ufsUrl |-> u]) : u \in UfsUrls}
    \cup {HttpStatus(403, Str("Expired")), HttpTransport("ETIMEDOUT")}

PostBodies ==
    [success : {Undefined, Bool("true"), Bool("false")},
     text : {Undefined, Str(""), Str("LAX 10:45")},
     data : {Undefined, Num("0"), Str("quota")}]

PostResponses ==
    {HttpOk(d) : d \in PostBodies}
    \cup {HttpStatus(402, Str("no credits")), HttpStatus(500, Str("")),
          HttpTransport("ENOTFOUND")}

\* the inputs of the concurrent calls
ConcArgs ==
    {[imagePath |-> ImagePath, outputType |-> Undefined,
      description |-> Str("the arrival time"), outputStructure |-> Undefined],
     [imagePath |-> OtherPath, outputType |-> Str("structured"),
      description |-> Undefined, outputStructure |-> Text(<<"[", " ", "]">>)],
     [imagePath |-> OtherPath, outputType |-> Str("structured"),
      description |-> Undefined, outputStructure |-> Text(<<"[">>)]}

\* the service answers every request with a URL of its own
ConcGetResponses(c) ==
    {HttpOk([url |-> Str("https://s3/put/" \o ToString(c)),
             key |-> Str("key-" \o ToString(c))]),
     HttpStatus(403, Str("Forbidden"))}

ConcPutResponses(c) ==
    {HttpOk([ufsUrl |-> Str("https://ufs/f/" \o ToString(c))]),
     HttpTransport("ETIMEDOUT")}

ConcPostResponses(c) ==
    {HttpOk([success |-> Bool("true"), text |-> Str("text-" \o ToString(c)),
             data |-> Undefined]),
     HttpOk([success |-> Bool("false"), text |-> Undefined,
             data |-> Str("quota")])}

(***************************************************************************)
(* Specifications                                                          *)
(***************************************************************************)
\* one call, over all the inputs
Init == InitCalls({1})

Next ==
    \/ Construct(ApiKeys)
    \/ \E c \in Calls : Process(c, ProcessArgs)
    \/ \E c \in Calls : GetUploadUrlResume(c, GetResponses)
    \/ \E c \in Calls : UploadFileResume(c, PutResponses)
    \/ Tick
    \/ \E c \in Calls : TimerFire(c)
    \/ \E c \in Calls : ImageToTextResume(c, PostResponses)

Spec == Init /\ [][Next]_vars

\* NumCalls calls on one client, interleaved in every way
InitConc == InitCalls(1..NumCalls)

NextConc ==
    \/ Construct({Str("sk-1"), Str("")})
    \/ \E c \in Calls : Process(c, ConcArgs)
    \/ \E c \in Calls : GetUploadUrlResume(c, ConcGetResponses(c))
    \/ \E c \in Calls : UploadFileResume(c, ConcPutResponses(c))
    \/ Tick
    \/ \E c \in Calls : TimerFire(c)
    \/ \E c \in Calls : ImageToTextResume(c, ConcPostResponses(c))

SpecConc == InitConc /\ [][NextConc]_vars

(***************************************************************************)
(* Vocabulary of the properties                                            *)
(***************************************************************************)
\* the names of the I/O events of call c, in order
Evs(c) == [k \in 1..Len(trace[c]) |-> trace[c][k].ev]

\* the events of call c named ev
EventsOf(c, ev) == {k \in 1..Len(trace[c]) : trace[c][k].ev = ev}
Issued(c, ev) == EventsOf(c, ev) # {}

\* call c issued no request at all
NoNetwork(c) == ~Issued(c, "GET") /\ ~Issued(c, "PUT") /\ ~Issued(c, "POST")

IsPrefix(a, b) == Len(a) <= Len(b) /\ SubSeq(b, 1, Len(a)) = a

\* the tokens of sub occur in msg, in a row
Contains(msg, sub) ==
    \E k \in 0..(Len(msg) - Len(sub)) : SubSeq(msg, k + 1, k + Len(sub)) = sub

Started(c) == pc[c] # "idle"
Failed(c)  == pc[c] = "rejected"
FileGiven(c) == FileKind(args[c].imagePath) = "file"

\* the outputStructure argument of call c is a non-empty string
StructureGiven(c) ==
    args[c].outputStructure.t = "string" /\ args[c].outputStructure.v # <<>>

\* ... that is not valid JSON
BadStructure(c) ==
    StructureGiven(c) /\ ~JsonParse(args[c].outputStructure.v).ok

JsonError(c) ==
    Failed(c) /\ Contains(outcome[c].err, <<"outputStructure must be valid JSON: ">>)

FullOrder == <<"GET", "GET.resp", "PUT", "PUT.resp", "setTimeout", "timeout",
               "POST", "POST.resp">>

(***************************************************************************)
(* C1 as stated: a call on a regular file with a non-empty outputStructure *)
(* that is not valid JSON fails with the JSON-parse error before any       *)
(* network call (no GET, no PUT, no POST has been issued).  The code       *)
(* refutes it: the check sits in imageToText, after the GET and the PUT.   *)
(***************************************************************************)
C1_FailsBeforeAnyNetworkCall ==
    \A c \in Calls :
        (Started(c) /\ FileGiven(c) /\ BadStructure(c))
            => (JsonError(c) /\ NoNetwork(c))

(***************************************************************************)
(* C1 as amended: such a call never issues the POST and never resolves;    *)
(* when it fails with the JSON-parse error, the GET and the PUT have been  *)
(* issued and answered and the delay has passed; otherwise its failure is  *)
(* the one of the GET or of the PUT.  Only such a call fails with the      *)
(* JSON-parse error.                                                       *)
(***************************************************************************)
C1_JsonCheckedBeforePostOnly ==
    \A c \in Calls :
        /\ (Started(c) /\ FileGiven(c) /\ BadStructure(c)) =>
              /\ ~Issued(c, "POST")
              /\ pc[c] # "resolved"
              /\ JsonError(c) =>
                    /\ Evs(c) = SubSeq(FullOrder, 1, 6)
                    /\ elapsed[c] >= DelayMs
              /\ (Failed(c) /\ ~JsonError(c)) =>
                    \/ Contains(outcome[c].err, <<"Failed to get upload URL: ">>)
                    \/ Contains(outcome[c].err, <<"Failed to upload file: ">>)
        /\ JsonError(c) => (FileGiven(c) /\ BadStructure(c))

C1_Witness ==
    \E c \in Calls :
        /\ JsonError(c)
        /\ args[c].outputStructure.v = <<"[", "1", ",">>
        /\ Issued(c, "GET") /\ Issued(c, "PUT")

(***************************************************************************)
(* C2: a call whose imagePath does not exist or is not a regular file      *)
(* fails with 'File not found or is not a file' and issues no request,     *)
(* whatever its other arguments.                                           *)
(***************************************************************************)
C2_FileNotFoundNoNetwork ==
    \A c \in Calls :
        (Started(c) /\ FileKind(args[c].imagePath) \in {"missing", "dir"}) =>
            /\ Failed(c)
            /\ outcome[c].err = <<"File not found or is not a file: ">>
                                \o PathText(args[c].imagePath)
            /\ trace[c] = <<>>
            /\ NoNetwork(c)

C2_Witness ==
    \E c \in Calls :
        /\ Failed(c)
        /\ args[c].imagePath = DirPath
        /\ args[c].outputStructure = Text(<<"[", "]">>)
        /\ args[c].description = Str("the arrival time")

(***************************************************************************)
(* C3: a failure of a phase aborts the call and no request of a later      *)
(* phase is issued: a GET that fails or whose answer lacks url or key      *)
(* gives an upload-URL error, and neither PUT nor POST; a PUT that fails   *)
(* or whose answer lacks ufsUrl gives a failure, and no POST.              *)
(***************************************************************************)
C3_FailureAbortsLaterPhases ==
    \A c \in Calls :
        LET g == resp[c].get
            u == resp[c].put
        IN /\ (g.kind \in {"status", "transport"}
               \/ (g.kind = "ok" /\ (~Truthy(g.data.url) \/ ~Truthy(g.data.key))))
              => /\ Failed(c)
                 /\ Contains(outcome[c].err, <<"Failed to get upload URL: ">>)
                 /\ ~Issued(c, "PUT") /\ ~Issued(c, "POST")
           /\ (u.kind \in {"status", "transport"}
               \/ (u.kind = "ok" /\ ~Truthy(u.data.ufsUrl)))
              => /\ Failed(c)
                 /\ Contains(outcome[c].err, <<"Failed to upload file: ">>)
                 /\ ~Issued(c, "POST")

C3_Witness ==
    \E c \in Calls :
        /\ resp[c].get = HttpOk([url |-> Undefined, key |-> Str("key-1")])
        /\ Failed(c)

(***************************************************************************)
(* C4: the payload of the POST has imageUrl = the ufsUrl the PUT of the    *)
(* same call returned and outputType = the argument (default "raw"); it    *)
(* has a description key iff description is non-empty, and an              *)
(* outputStructure key iff outputStructure is non-empty, whose value is    *)
(* the parsed input serialised again without whitespace, not the input.    *)
(***************************************************************************)
C4_PayloadOfThePost ==
    \A c \in Calls : \A k \in EventsOf(c, "POST") :
        LET p == trace[c][k].body
            a == args[c]
        IN /\ resp[c].put.kind = "ok"
           /\ p.imageUrl = resp[c].put.data.ufsUrl.v
           /\ p.outputType =
                 (IF a.outputType = Undefined THEN "raw" ELSE a.outputType.v)
           /\ ("description" \in DOMAIN p) <=>
                 (a.description.t = "string" /\ a.description.v # "")
           /\ ("description" \in DOMAIN p) => p.description = a.description.v
           /\ ("outputStructure" \in DOMAIN p) <=> StructureGiven(c)
           /\ ("outputStructure" \in DOMAIN p) =>
                 /\ JsonParse(a.outputStructure.v).ok
                 /\ p.outputStructure
                       = JsonStringify(JsonParse(a.outputStructure.v).val)
                 /\ \A i \in 1..Len(p.outputStructure) :
                       p.outputStructure[i] \notin Whitespace
                 /\ (\E i \in 1..Len(a.outputStructure.v) :
                        a.outputStructure.v[i] \in Whitespace)
                    => p.outputStructure # a.outputStructure.v

C4_Witness ==
    \E c \in Calls : \E k \in EventsOf(c, "POST") :
        /\ args[c].outputStructure = Text(<<"[", " ", "]">>)
        /\ trace[c][k].body.outputStructure = <<"[", "]">>
        /\ args[c].description = Undefined
        /\ DOMAIN trace[c][k].body = {"imageUrl", "outputType", "outputStructure"}
        /\ pc[c] = "resolved"

(***************************************************************************)
(* C5: the caller gets a result or an error, never both: on a 2xx answer   *)
(* of the POST the call returns the answer's body unchanged exactly when   *)
(* its success flag is not false; when it is false the call fails with     *)
(* 'Processing failed: ' and the diagnostic (data if truthy, else text if  *)
(* truthy, else the whole body), and returns nothing.                      *)
(***************************************************************************)
C5_ResultOrError ==
    \A c \in Calls :
        /\ outcome[c].ok => (pc[c] = "resolved" /\ outcome[c].err = <<>>)
        /\ pc[c] = "resolved" => outcome[c].ok
        /\ Failed(c) =>
              (~outcome[c].ok /\ outcome[c].val = Undefined /\ outcome[c].err # <<>>)
        /\ resp[c].post.kind = "ok" =>
              LET d == resp[c].post.data
                  diag == IF d.data.t \in {"string", "number"}
                             /\ d.data.v \notin {"", "0"}
                          THEN ScalarStringify(d.data)
                          ELSE IF d.text.t = "string" /\ d.text.v # ""
                          THEN ScalarStringify(d.text)
                          ELSE BodyStringify(d)
              IN IF d.success.t = "boolean" /\ d.success.v = "false"
                 THEN /\ Failed(c)
                      /\ Contains(outcome[c].err, <<"Processing failed: ">> \o diag)
                 ELSE /\ pc[c] = "resolved"
                      /\ outcome[c].val = d

C5_Witness ==
    \E c \in Calls :
        /\ resp[c].post = HttpOk([success |-> Bool("false"), text |-> Str(""),
                                  data |-> Undefined])
        /\ Failed(c)
        /\ Contains(outcome[c].err,
               <<"Processing failed: ", "{", "\"success\":", "false", ",",
                 "\"text\":", "\"\"", "}">>)

(***************************************************************************)
(* C6: a constructor call with an absent, empty or non-string credential   *)
(* fails with the configuration error and leaves no usable client (no call *)
(* starts, no request is issued); one with a non-empty string gives a      *)
(* client whose Authorization header is 'Bearer <credential>'.             *)
(***************************************************************************)
C6_ConstructorChecksCredential ==
    client.state # "none" =>
        IF apiKey.t = "string" /\ apiKey.v # ""
        THEN /\ client.state = "ok"
             /\ client.auth = "Bearer " \o apiKey.v
        ELSE /\ client.state = "failed"
             /\ client.error = <<"API Key is required and must be a string.">>
             /\ \A c \in Calls : pc[c] = "idle" /\ trace[c] = <<>>

C6_Witness == client.state = "failed" /\ apiKey = Num("42")

(***************************************************************************)
(* C7 as stated: every failure inside a phase of process reaches the       *)
(* caller wrapped twice, by the step and then by process ('Image           *)
(* processing failed: ').  The code refutes it for the extraction phase:   *)
(* process returns the promise of imageToText without awaiting it.         *)
(***************************************************************************)
StepContexts ==
    {"Failed to get upload URL: ", "Failed to upload file: ",
     "outputStructure must be valid JSON: ", "Failed to process image: ",
     "API call failed: "}

C7_EveryFailureWrappedTwice ==
    \A c \in Calls :
        (Failed(c) /\ trace[c] # <<>>) =>
            /\ Len(outcome[c].err) >= 2
            /\ outcome[c].err[1] = "Image processing failed: "
            /\ outcome[c].err[2] \in StepContexts

(***************************************************************************)
(* C8 as stated: at each of the GET, the PUT and the POST a non-2xx answer *)
(* is reported with its status code and its body, and differently from a   *)
(* transport failure.  The code refutes it: at the GET and the PUT the     *)
(* body of the answer is dropped.                                          *)
(***************************************************************************)
CarriesStatusAndBody(c, r) ==
    /\ Failed(c)
    /\ Contains(outcome[c].err, <<ToString(r.status)>>)
    /\ Contains(outcome[c].err, ScalarStringify(r.data))

C8_StatusAndBodyAtEveryCall ==
    \A c \in Calls : \A r \in {resp[c].get, resp[c].put, resp[c].post} :
        r.kind = "status" => CarriesStatusAndBody(c, r)

(***************************************************************************)
(* C8 as amended: only the POST reports a non-2xx answer as an HTTP-status *)
(* error with the status code and the body ('API call failed: <status> -   *)
(* <body>'), which a transport failure of the POST never is ('Failed to    *)
(* process image: <message>'); at the GET and the PUT a non-2xx answer and *)
(* a transport failure go through the same two wrappers around the HTTP    *)
(* library's message, and the body of the answer is not carried.           *)
(***************************************************************************)
C8_StatusAndBodyAtThePostOnly ==
    \A c \in Calls :
        LET g == resp[c].get
            u == resp[c].put
            x == resp[c].post
        IN /\ x.kind = "status" =>
                 /\ Failed(c)
                 /\ Contains(outcome[c].err,
                        <<"API call failed: ", ToString(x.status), " - ">>
                        \o ScalarStringify(x.data))
           /\ x.kind = "transport" =>
                 /\ Failed(c)
                 /\ Contains(outcome[c].err, <<"Failed to process image: ", x.code>>)
                 /\ ~Contains(outcome[c].err, <<"API call failed: ">>)
           /\ g.kind \in {"status", "transport"} =>
                 /\ Failed(c)
                 /\ outcome[c].err = <<"Image processing failed: ",
                                       "Failed to get upload URL: ">>
                                     \o AxiosMessage(g)
                 /\ g.kind = "status" =>
                       ~Contains(outcome[c].err, ScalarStringify(g.data))
           /\ u.kind \in {"status", "transport"} =>
                 /\ Failed(c)
                 /\ outcome[c].err = <<"Image processing failed: ",
                                       "Failed to upload file: ">>
                                     \o AxiosMessage(u)
                 /\ u.kind = "status" =>
                       ~Contains(outcome[c].err, ScalarStringify(u.data))

C8_Witness ==
    \E c \in Calls :
        /\ resp[c].post = HttpStatus(402, Str("no credits"))
        /\ Contains(outcome[c].err,
               <<"API call failed: ", "402", " - ", "\"no credits\"">>)

(***************************************************************************)
(* C9: the events of a call occur in the order GET, PUT, delay, POST: the  *)
(* PUT follows the answer to the GET and goes to the url of that answer,   *)
(* the POST follows the answer to the PUT and the end of the delay, which  *)
(* lasted at least DelayMs, and no request is issued twice.                *)
(***************************************************************************)
C9_StrictOrder ==
    \A c \in Calls :
        /\ IsPrefix(Evs(c), FullOrder)
        /\ \A k \in EventsOf(c, "PUT") :
              /\ resp[c].get.kind = "ok"
              /\ trace[c][k].url = <<resp[c].get.data.url.v>>
        /\ Issued(c, "setTimeout") => resp[c].put.kind = "ok"
        /\ Issued(c, "timeout") => elapsed[c] >= DelayMs
        /\ \A ev \in {"GET", "PUT", "POST"} : Cardinality(EventsOf(c, ev)) <= 1

C9_Witness ==
    \E c \in Calls : Evs(c) = FullOrder /\ elapsed[c] >= DelayMs

(***************************************************************************)
(* C10: calls that run concurrently on one client do not interfere: the    *)
(* PUT of a call goes to the url of its own GET, its POST carries the      *)
(* ufsUrl of its own PUT and its own arguments, its outcome is the one it  *)
(* has when run alone on the same answers, and the Authorization header    *)
(* keeps the value the constructor gave it.                                *)
(***************************************************************************)
\* the outcome of process(a) run alone, as a function of the answers
Alone(a, answers) ==
    IF FileKind(a.imagePath) # "file"
    THEN Rejected(<<"File not found or is not a file: ">> \o PathText(a.imagePath))
    ELSE LET info == ProcessAwait(GetUploadUrlSettle(answers.get)) IN
         IF ~info.ok THEN info
         ELSE LET ufsUrl == ProcessAwait(UploadFileSettle(answers.put)) IN
              IF ~ufsUrl.ok THEN ufsUrl
              ELSE LET started == ImageToTextStart(ufsUrl.val, a.outputType,
                                      a.description, a.outputStructure) IN
                   IF ~started.ok THEN started
                   ELSE ImageToTextSettle(answers.post)

C10_CallsDoNotInterfere ==
    /\ client.state = "ok" => client.auth = "Bearer " \o apiKey.v
    /\ \A c \in Calls :
          /\ \A k \in 1..Len(trace[c]) :
                trace[c][k].ev \in {"GET", "PUT", "POST"}
                    => trace[c][k].auth = "Bearer " \o apiKey.v
          /\ \A k \in EventsOf(c, "GET") :
                trace[c][k].url = UploadUrlRequest(args[c].imagePath)
          /\ \A k \in EventsOf(c, "PUT") :
                /\ trace[c][k].url = <<resp[c].get.data.url.v>>
                /\ trace[c][k].body.file = args[c].imagePath
          /\ \A k \in EventsOf(c, "POST") :
                /\ trace[c][k].body.imageUrl = resp[c].put.data.ufsUrl.v
                /\ trace[c][k].body.outputType
                      = Default(args[c].outputType, Str("raw")).v
                /\ Truthy(Default(args[c].description, Str(""))) =>
                      trace[c][k].body.description = args[c].description.v
          /\ pc[c] \in {"resolved", "rejected"} =>
                outcome[c] = Alone(args[c], resp[c])

C10_Witness ==
    \E c, d \in Calls :
        /\ c # d
        /\ pc[c] = "awaitPost" /\ pc[d] = "resolved"
        /\ resp[c].put.data.ufsUrl # resp[d].put.data.ufsUrl
        /\ args[c] # args[d]
        /\ outcome[d].val = resp[d].post.data
        /\ elapsed[c] = DelayMs /\ elapsed[d] = DelayMs + TickMs

====
